---- MODULE Spec2Model ----
(***************************************************************************)
(* NOORSOL Dubai financial dashboard (src/app.py).                         *)
(*                                                                         *)
(* The script is re-executed top to bottom on every slider change: it      *)
(* reads the six sliders, builds the three scenario rows with              *)
(* compute_scenario and renders the breakeven tab from the Base row.       *)
(*                                                                         *)
(* Numbers.  The program computes in Python floats.  The model computes    *)
(* the same expressions over exact rationals <<n, d>> (d > 0, lowest       *)
(* terms), i.e. the real-number value every float expression approximates; *)
(* float rounding noise (about 1e-13 relative) is not modelled.            *)
(*   <<1, 0>> is float("inf"); <<0, 0>> stands for a raised                *)
(*   ZeroDivisionError (Python's "/" with a zero divisor).                 *)
(***************************************************************************)
EXTENDS Integers, Sequences, FiniteSets, TLC

VARIABLES
    sliders,          \* the six sidebar slider values, in percent
    scenarios,        \* the list built at app.py:244-248 (rows of df_scen)
    be_units_total,   \* app.py:615
    display,          \* what the breakeven tab shows: metric, chart, message
    reruns,           \* history: script reruns so far, saturating at MaxReruns
    call,             \* calculator harness: the call being made
    result            \* calculator harness: what the call returned

vars == <<sliders, scenarios, be_units_total, display, reruns, call, result>>

(***************************************************************************)
(* Bounds of the model.                                                    *)
(***************************************************************************)
MaxNotch == 0         \* sliders reach min + j*step for j in 0..MaxNotch
MaxReruns == 2        \* the rerun counter stops counting here
MaxRatePct == 5       \* calculator rates range over -MaxRatePct..MaxRatePct %
MaxContrib == 6       \* breakeven inputs n/d with |n| <= MaxContrib
MaxContribDen == 3    \* ... and 1 <= d <= MaxContribDen

(***************************************************************************)
(* Exact rational arithmetic standing for Python float arithmetic.         *)
(***************************************************************************)
Abs(n) == IF n < 0 THEN -n ELSE n

RECURSIVE GCD(_, _)
GCD(a, b) == IF b = 0 THEN a ELSE GCD(b, a % b)

Rat(n, d) ==
    LET g == GCD(Abs(n), Abs(d))
        s == IF d < 0 THEN -1 ELSE 1
    IN  <<(s * n) \div g, (s * d) \div g>>

R(i) == <<i, 1>>

Inf == <<1, 0>>                    \* float("inf")
ZeroDivisionError == <<0, 0>>      \* the exception raised by x / 0

IsNum(x) == x[2] > 0               \* a finite number

Add(x, y) ==
    IF ~IsNum(x) \/ ~IsNum(y) THEN ZeroDivisionError
    ELSE Rat(x[1] * y[2] + y[1] * x[2], x[2] * y[2])

Neg(x) == <<-x[1], x[2]>>

Sub(x, y) == Add(x, Neg(y))

Mul(x, y) ==
    IF ~IsNum(x) \/ ~IsNum(y) THEN ZeroDivisionError
    ELSE LET g1 == GCD(Abs(x[1]), y[2])
             g2 == GCD(Abs(y[1]), x[2])
         IN  <<(x[1] \div g1) * (y[1] \div g2), (x[2] \div g2) * (y[2] \div g1)>>

Div(x, y) ==
    IF ~IsNum(x) \/ ~IsNum(y) THEN ZeroDivisionError
    ELSE IF y[1] = 0 THEN ZeroDivisionError
    ELSE IF y[1] < 0 THEN Mul(x, <<-y[2], -y[1]>>)
    ELSE Mul(x, <<y[2], y[1]>>)

Floor(x) == x[1] \div x[2]         \* TLA+ \div rounds toward minus infinity

\* x < y for finite x, y; integer parts first, so that the cross products
\* stay small.
Lt(x, y) ==
    \/ Floor(x) < Floor(y)
    \/ /\ Floor(x) = Floor(y)
       /\ (x[1] % x[2]) * y[2] < (y[1] % y[2]) * x[2]

Gt0(x) == x[1] > 0 /\ x[2] >= 0    \* x > 0, true of float("inf") as well
Le0(x) == IsNum(x) /\ x[1] <= 0    \* x <= 0
Lt0(x) == IsNum(x) /\ x[1] < 0     \* x < 0

\* int(x): truncation toward zero
int(x) == IF x[1] >= 0 THEN x[1] \div x[2] ELSE -((-x[1]) \div x[2])

(***************************************************************************)
(* CONFIG & CONSTANTS, app.py:14-43                                        *)
(***************************************************************************)
TOTAL_BIKES_DUBAI == 40000
BAGS_PER_BIKE_PER_YEAR == <<1, 1>>     \* the float 1.0
ANNUAL_BAG_DEMAND == int(Mul(R(TOTAL_BIKES_DUBAI), BAGS_PER_BIKE_PER_YEAR))

B2C_MARKET_SIZE_DUBAI == 200000

B2B_PRICE_LAUNCH == 450
B2B_COGS == 200

B2C_PRICE_LAUNCH == 599
B2C_COGS == 305

FIXED_SALARIES == 360000
FIXED_MARKETING == 90000
FIXED_RND == 40000
FIXED_OPS == 120000
FIXED_OTHER == 30000
TOTAL_FIXED_COSTS ==
    FIXED_SALARIES + FIXED_MARKETING + FIXED_RND + FIXED_OPS + FIXED_OTHER


(***************************************************************************)
(* compute_scenario, app.py:49-106, one operator per assignment.           *)
(***************************************************************************)
\* Units from adoption rates
\* mutant: the B2B rate applied to the B2C market size
b2b_units_b2c_market(adoption_rate_b2b) ==
    Mul(R(B2C_MARKET_SIZE_DUBAI), adoption_rate_b2b)
b2b_units(adoption_rate_b2b) == Mul(R(ANNUAL_BAG_DEMAND), adoption_rate_b2b)
b2c_units(adoption_rate_b2c) == Mul(R(B2C_MARKET_SIZE_DUBAI), adoption_rate_b2c)

b2b_price == B2B_PRICE_LAUNCH
b2c_price == B2C_PRICE_LAUNCH

\* Revenue
b2b_revenue(units) == Mul(units, R(b2b_price))
\* mutant: the B2C line billed at the B2B price
b2c_revenue_b2b_price(units) == Mul(units, R(b2b_price))
b2c_revenue(units) == Mul(units, R(b2c_price))
total_revenue(rev_b2b, rev_b2c) == Add(rev_b2b, rev_b2c)

\* COGS
b2b_cogs_total(units) == Mul(units, R(B2B_COGS))
\* mutant: the B2C line costed at the B2B unit cost
b2c_cogs_total_b2b_cost(units) == Mul(units, R(B2B_COGS))
b2c_cogs_total(units) == Mul(units, R(B2C_COGS))
total_cogs(cogs_b2b, cogs_b2c) == Add(cogs_b2b, cogs_b2c)

\* Gross profit
\* mutant: the "other" bucket charged against gross profit as well
gross_profit_less_other(revenue, cogs) ==
    Sub(Sub(revenue, cogs), R(FIXED_OTHER))
gross_profit(revenue, cogs) == Sub(revenue, cogs)
\* mutant: guards only against a zero divisor
gross_margin_pct_nonzero_guard(profit, revenue) ==
    IF revenue[1] # 0 THEN Mul(Div(profit, revenue), R(100)) ELSE R(0)
gross_margin_pct(profit, revenue) ==
    IF Gt0(revenue) THEN Mul(Div(profit, revenue), R(100)) ELSE R(0)

\* EBIT
\* mutant: marketing budgeted as 5% of gross profit instead of the fixed
\* bucket
ebit_variable_marketing(profit) ==
    Sub(profit, Add(R(TOTAL_FIXED_COSTS - FIXED_MARKETING),
                    Mul(profit, Rat(5, 100))))
ebit(profit) == Sub(profit, R(TOTAL_FIXED_COSTS))
ebit_margin_pct(earnings, revenue) ==
    IF Gt0(revenue) THEN Mul(Div(earnings, revenue), R(100)) ELSE R(0)

\* Contribution per unit (blended)
total_units(units_b2b, units_b2c) == Add(units_b2b, units_b2c)
\* mutant: guards only against a zero divisor
contribution_per_unit_nonzero_guard(profit, units) ==
    IF units[1] # 0 THEN Div(profit, units) ELSE R(0)
contribution_per_unit(profit, units) ==
    IF Gt0(units) THEN Div(profit, units) ELSE R(0)

\* The "Fixed costs (AED)" entry of the returned dict
fixed_costs_entry == R(TOTAL_FIXED_COSTS)

compute_scenario(name, adoption_rate_b2b, adoption_rate_b2c) ==
    LET ub   == b2b_units(adoption_rate_b2b)
        uc   == b2c_units(adoption_rate_b2c)
        rb   == b2b_revenue(ub)
        rc   == b2c_revenue(uc)
        rev  == total_revenue(rb, rc)
        cb   == b2b_cogs_total(ub)
        cc   == b2c_cogs_total(uc)
        cogs == total_cogs(cb, cc)
        gp   == gross_profit(rev, cogs)
        gm   == gross_margin_pct(gp, rev)
        e    == ebit(gp)
        em   == ebit_margin_pct(e, rev)
        tu   == total_units(ub, uc)
        cpu  == contribution_per_unit(gp, tu)
    IN  [ Scenario              |-> name,
          adoption_b2b          |-> adoption_rate_b2b,
          adoption_b2c          |-> adoption_rate_b2c,
          b2b_units             |-> ub,
          b2c_units             |-> uc,
          total_units           |-> tu,
          b2b_revenue           |-> rb,
          b2c_revenue           |-> rc,
          total_revenue         |-> rev,
          total_cogs            |-> cogs,
          gross_profit          |-> gp,
          gross_margin_pct      |-> gm,
          fixed_costs           |-> fixed_costs_entry,
          ebit                  |-> e,
          ebit_margin_pct       |-> em,
          contribution_per_unit |-> cpu,
          b2b_cogs_total        |-> cb,
          b2c_cogs_total        |-> cc ]

\* app.py:109-112
\* mutant: the guard misses the zero contribution
breakeven_units_strict_guard(contribution) ==
    IF Lt0(contribution) THEN Inf
    ELSE Div(R(TOTAL_FIXED_COSTS), contribution)
breakeven_units(contribution) ==
    IF Le0(contribution) THEN Inf
    ELSE Div(R(TOTAL_FIXED_COSTS), contribution)

(***************************************************************************)
(* Sidebar sliders, app.py:169-239.  Values are percentages.               *)
(***************************************************************************)
\* mutant: the two Base sliders start at 0%
SliderDefs_base_from_zero ==
    [ adoption_pess_b2b_pct |-> [min_value |-> R(1),  max_value |-> R(20),
                                 value |-> R(5),  step |-> R(1)],
      adoption_base_b2b_pct |-> [min_value |-> R(0),  max_value |-> R(40),
                                 value |-> R(10), step |-> R(1)],
      adoption_opt_b2b_pct  |-> [min_value |-> R(10), max_value |-> R(80),
                                 value |-> R(20), step |-> R(1)],
      b2c_pess_pct |-> [min_value |-> Rat(1, 10), max_value |-> R(2),
                        value |-> Rat(3, 10),   step |-> Rat(1, 10)],
      b2c_base_pct |-> [min_value |-> R(0), max_value |-> R(3),
                        value |-> Rat(45, 100), step |-> Rat(5, 100)],
      b2c_opt_pct  |-> [min_value |-> Rat(3, 10), max_value |-> R(5),
                        value |-> Rat(60, 100), step |-> Rat(1, 10)] ]

SliderDefs ==
    [ adoption_pess_b2b_pct |-> [min_value |-> R(1),  max_value |-> R(20),
                                 value |-> R(5),  step |-> R(1)],
      adoption_base_b2b_pct |-> [min_value |-> R(5),  max_value |-> R(40),
                                 value |-> R(10), step |-> R(1)],
      adoption_opt_b2b_pct  |-> [min_value |-> R(10), max_value |-> R(80),
                                 value |-> R(20), step |-> R(1)],
      b2c_pess_pct |-> [min_value |-> Rat(1, 10), max_value |-> R(2),
                        value |-> Rat(3, 10),   step |-> Rat(1, 10)],
      b2c_base_pct |-> [min_value |-> Rat(2, 10), max_value |-> R(3),
                        value |-> Rat(45, 100), step |-> Rat(5, 100)],
      b2c_opt_pct  |-> [min_value |-> Rat(3, 10), max_value |-> R(5),
                        value |-> Rat(60, 100), step |-> Rat(1, 10)] ]

SliderNames == DOMAIN SliderDefs

\* The two sliders that feed the breakeven tab
BaseSliders == {"adoption_base_b2b_pct", "b2c_base_pct"}

\* The positions the model lets a slider take: its default and the first
\* MaxNotch + 1 steps from its minimum; the Base sliders also their maximum.
SliderValues(k) ==
    LET d == SliderDefs[k]
    IN  {d.value}
          \cup { Add(d.min_value, Mul(R(j), d.step)) : j \in 0..MaxNotch }
          \cup (IF k \in BaseSliders THEN {d.max_value} ELSE {})

DefaultSliders == [k \in SliderNames |-> SliderDefs[k].value]

\* "Convert to decimals", app.py:196-198 and 237-239
to_decimal(pct) == Div(pct, R(100))

\* app.py:244-248
build_scenarios(s) ==
    << compute_scenario("Pessimistic", to_decimal(s.adoption_pess_b2b_pct),
                                       to_decimal(s.b2c_pess_pct)),
       compute_scenario("Base",        to_decimal(s.adoption_base_b2b_pct),
                                       to_decimal(s.b2c_base_pct)),
       compute_scenario("Optimistic",  to_decimal(s.adoption_opt_b2b_pct),
                                       to_decimal(s.b2c_opt_pct)) >>

(***************************************************************************)
(* Breakeven tab, app.py:608-660                                           *)
(***************************************************************************)
\* df_scen[df_scen["Scenario"] == "Base"].iloc[0]
base_row(df_scen) == SelectSeq(df_scen, LAMBDA r : r.Scenario = "Base")[1]

isinf(x) == x = Inf

\* f"{x:,.0f}": the nearest integer, ties to even
format_0f(x) ==
    LET f == Floor(x)
        twice == 2 * (x[1] % x[2])
    IN  IF twice < x[2] THEN f
        ELSE IF twice > x[2] THEN f + 1
        ELSE IF f % 2 = 0 THEN f ELSE f + 1

\* the third st.metric, app.py:620-623
\* mutant: no branch for the infinite value
breakeven_metric_always_number(be) ==
    [text |-> "number", number |-> IF isinf(be) THEN 0 ELSE format_0f(be)]
breakeven_metric(be) ==
    IF isinf(be) THEN [text |-> "infinity symbol", number |-> 0]
    ELSE [text |-> "number", number |-> format_0f(be)]

\* the branch condition at app.py:627
curve_is_drawn(be) == ~isinf(be) /\ Gt0(be)

max_units(be) == int(Mul(be, Rat(3, 2)))

NumSamples == 60

\* np.linspace(0, stop, 60)[i + 1], i.e. sample i of 0..59
linspace(stop, i) == Rat(i * stop, NumSamples - 1)

\* (units * contribution_per_unit) - TOTAL_FIXED_COSTS for the sample
\* units = x / q, contribution n / d, as the mixed number
\* whole + num / den with 0 <= num < den.  The product is taken in two
\* parts so that no intermediate value leaves the 32-bit range.
cum_profit_plus_fixed(x, q, contribution) ==   \* mutant: sign of the fixed costs
    LET n     == contribution[1]
        qd    == q * contribution[2]
        xq    == x \div qd
        xr    == x % qd
        whole == xq * n + ((xr * n) \div qd) + TOTAL_FIXED_COSTS
        frac  == Rat((xr * n) % qd, qd)
    IN  [whole |-> whole, num |-> frac[1], den |-> frac[2]]
cum_profit(x, q, contribution) ==
    LET n     == contribution[1]
        qd    == q * contribution[2]
        xq    == x \div qd
        xr    == x % qd
        whole == xq * n + ((xr * n) \div qd) - TOTAL_FIXED_COSTS
        frac  == Rat((xr * n) % qd, qd)
    IN  [whole |-> whole, num |-> frac[1], den |-> frac[2]]

\* the data frame df_be, app.py:629-636
profit_curve(be, contribution) ==
    LET stop == max_units(be)
    IN  [ i \in 1..NumSamples |->
            [ units  |-> linspace(stop, i - 1),
              profit |-> cum_profit((i - 1) * stop, NumSamples - 1,
                                    contribution) ] ]

tab_breakeven(df_scen) ==
    LET contribution == base_row(df_scen).contribution_per_unit
        be == breakeven_units(contribution)
    IN  [ be_units_total |-> be,
          display |->
            [ contribution_metric |-> format_0f(contribution),
              fixed_costs_metric  |-> TOTAL_FIXED_COSTS,
              breakeven_metric    |-> breakeven_metric(be),
              chart   |-> IF curve_is_drawn(be)
                          THEN profit_curve(be, contribution) ELSE << >>,
              message |-> IF curve_is_drawn(be)
                          THEN [kind |-> "info", units |-> format_0f(be)]
                          ELSE [kind |-> "warning", units |-> 0] ] ]

\* One execution of the script, top to bottom, on the slider values s.
script(s) ==
    LET rows == build_scenarios(s)
        tab  == tab_breakeven(rows)
    IN  [scenarios |-> rows, be_units_total |-> tab.be_units_total,
         display |-> tab.display]

\* mutant: the breakeven tab is cached on the Base B2B adoption alone
rerun_cached(s) ==
    IF base_row(scenarios).adoption_b2b = to_decimal(s.adoption_base_b2b_pct)
    THEN [script(s) EXCEPT !.be_units_total = be_units_total,
                           !.display = display]
    ELSE script(s)

\* What a rerun triggered by a widget change leaves on the page: Streamlit
\* executes the whole script again; the script keeps no cache and no
\* session state.
rerun(s) == script(s)

(***************************************************************************)
(* The dashboard: the page after the first run, then one rerun per slider  *)
(* change.                                                                 *)
(***************************************************************************)
NoCall == [op |-> "none"]
NotReturned == [returned |-> FALSE]
Returned(v) == [returned |-> TRUE, value |-> v]

FirstRun ==
    /\ sliders = DefaultSliders
    /\ scenarios = script(sliders).scenarios
    /\ be_units_total = script(sliders).be_units_total
    /\ display = script(sliders).display
    /\ reruns = 0

Init ==
    /\ FirstRun
    /\ call = NoCall
    /\ result = NotReturned

ChangeSlider(k, v) ==
    /\ v # sliders[k]
    /\ sliders' = [sliders EXCEPT ![k] = v]
    /\ LET page == rerun(sliders')
       IN  /\ scenarios' = page.scenarios
           /\ be_units_total' = page.be_units_total
           /\ display' = page.display
    /\ reruns' = IF reruns < MaxReruns THEN reruns + 1 ELSE reruns
    /\ UNCHANGED <<call, result>>

Next == \E k \in SliderNames : \E v \in SliderValues(k) : ChangeSlider(k, v)

Spec == Init /\ [][Next]_vars

(***************************************************************************)
(* The two Base sliders over their whole declared ranges, the other four   *)
(* left at their defaults.  The slider is moved one step at a time (arrow  *)
(* keys), which reaches every position of the range.                       *)
(***************************************************************************)
\* every position min_value, min_value + step, ..., max_value of a slider
FullRange(k) ==
    LET d == SliderDefs[k]
        last == int(Div(Sub(d.max_value, d.min_value), d.step))
    IN  { Add(d.min_value, Mul(R(j), d.step)) : j \in 0..last }

StepSlider(k, v) ==
    /\ \/ v = Add(sliders[k], SliderDefs[k].step)
       \/ v = Sub(sliders[k], SliderDefs[k].step)
    /\ ChangeSlider(k, v)

NextBaseRange ==
    \E k \in BaseSliders : \E v \in FullRange(k) : StepSlider(k, v)

SpecBaseRange == Init /\ [][NextBaseRange]_vars

(***************************************************************************)
(* The calculator on its own: compute_scenario and breakeven_units applied *)
(* to arguments the sliders cannot produce (zero, negative, large).        *)
(***************************************************************************)
ScenarioNames == {"Pessimistic", "Base", "Optimistic"}

\* -5.99 and 0.9 make the two revenue lines cancel; 0.0045 is the Base
\* default of the B2C slider.
RateInputs ==
    { Rat(n, 100) : n \in -MaxRatePct..MaxRatePct }
      \cup { Rat(45, 10000), Rat(-599, 100), Rat(599, 100),
             Rat(9, 10), Rat(-9, 10) }

ContributionInputs ==
    { Rat(n, d) : n \in -MaxContrib..MaxContrib, d \in 1..MaxContribDen }
      \cup { R(250), R(294), Rat(12646, 49) }

\* Base rates for the breakeven tab; 11% B2B with -2% B2C sells 400 units
\* at a loss (contribution -190 per unit).
TabRateInputs ==
    { Rat(n, 100) : n \in -MaxRatePct..MaxRatePct } \cup { Rat(11, 100) }

\* df_scen with the Base row computed from the given rates
df_scen_with_base(adoption_rate_b2b, adoption_rate_b2c) ==
    [build_scenarios(DefaultSliders) EXCEPT
        ![2] = compute_scenario("Base", adoption_rate_b2b, adoption_rate_b2c)]

Calls ==
    [op : {"compute_scenario"}, name : ScenarioNames,
     adoption_rate_b2b : RateInputs, adoption_rate_b2c : RateInputs]
      \cup [op : {"breakeven_units"}, contribution_per_unit : ContributionInputs]
      \cup [op : {"tab_breakeven"},
            adoption_rate_b2b : TabRateInputs, adoption_rate_b2c : TabRateInputs]

InitCalc ==
    /\ FirstRun
    /\ call \in Calls
    /\ result = NotReturned

Run_compute_scenario ==
    /\ call.op = "compute_scenario"
    /\ ~result.returned
    /\ result' = Returned(compute_scenario(call.name, call.adoption_rate_b2b,
                                           call.adoption_rate_b2c))
    /\ UNCHANGED <<sliders, scenarios, be_units_total, display, reruns, call>>

Run_breakeven_units ==
    /\ call.op = "breakeven_units"
    /\ ~result.returned
    /\ result' = Returned(breakeven_units(call.contribution_per_unit))
    /\ UNCHANGED <<sliders, scenarios, be_units_total, display, reruns, call>>

Run_tab_breakeven ==
    /\ call.op = "tab_breakeven"
    /\ ~result.returned
    /\ result' = Returned(tab_breakeven(
                     df_scen_with_base(call.adoption_rate_b2b,
                                       call.adoption_rate_b2c)))
    /\ UNCHANGED <<sliders, scenarios, be_units_total, display, reruns, call>>

NextCall ==
    /\ result.returned
    /\ call' \in Calls
    /\ result' = NotReturned
    /\ UNCHANGED <<sliders, scenarios, be_units_total, display, reruns>>

NextCalc ==
    \/ Run_compute_scenario
    \/ Run_breakeven_units
    \/ Run_tab_breakeven
    \/ NextCall

SpecCalc == InitCalc /\ [][NextCalc]_vars

(***************************************************************************)
(* Properties                                                              *)
(***************************************************************************)
ScenarioReturned == call.op = "compute_scenario" /\ result.returned
BreakevenReturned == call.op = "breakeven_units" /\ result.returned

BaseDefaults ==
    /\ sliders.adoption_base_b2b_pct = R(10)
    /\ sliders.b2c_base_pct = Rat(45, 100)

\* C1 as stated: with Base B2B adoption 10% and 900 B2C units (0.45% of
\* the B2C market), annual bag demand is 60,000 and the Base row reads
\* 6,000 B2B units, B2B revenue 2,700,000, B2B COGS 1,200,000, B2C revenue
\* 539,100, B2C COGS 274,500, total revenue 3,239,100, total COGS
\* 1,474,500, gross profit 1,764,600, fixed costs 640,000, EBIT 1,124,600.
C1_AsStated ==
    BaseDefaults =>
        LET r == base_row(scenarios)
        IN  /\ ANNUAL_BAG_DEMAND = 60000
            /\ r.b2b_units = R(6000)
            /\ r.b2c_units = R(900)
            /\ r.b2b_revenue = R(2700000)
            /\ r.b2b_cogs_total = R(1200000)
            /\ r.b2c_revenue = R(539100)
            /\ r.b2c_cogs_total = R(274500)
            /\ r.total_revenue = R(3239100)
            /\ r.total_cogs = R(1474500)
            /\ r.gross_profit = R(1764600)
            /\ r.fixed_costs = R(640000)
            /\ r.ebit = R(1124600)

\* C1, amended: with Base B2B adoption 10% and 900 B2C units, annual bag
\* demand is 40,000 (40,000 bikes x 1.0 bag per year) and the Base row
\* reads 4,000 B2B units, B2B revenue 1,800,000, B2B COGS 800,000, B2C
\* revenue 539,100, B2C COGS 274,500, total revenue 2,339,100, total COGS
\* 1,074,500, gross profit 1,264,600, fixed costs 640,000, EBIT 624,600.
C1_BaseScenario ==
    BaseDefaults =>
        LET r == base_row(scenarios)
        IN  /\ ANNUAL_BAG_DEMAND = 40000
            /\ r.b2b_units = R(4000)
            /\ r.b2c_units = R(900)
            /\ r.b2b_revenue = R(1800000)
            /\ r.b2b_cogs_total = R(800000)
            /\ r.b2c_revenue = R(539100)
            /\ r.b2c_cogs_total = R(274500)
            /\ r.total_revenue = R(2339100)
            /\ r.total_cogs = R(1074500)
            /\ r.gross_profit = R(1264600)
            /\ r.fixed_costs = R(640000)
            /\ r.ebit = R(624600)

C1_Witness ==
    /\ BaseDefaults
    /\ reruns > 0
    /\ base_row(scenarios).adoption_b2b = Rat(10, 100)
    /\ base_row(scenarios).b2c_units = R(900)

\* C2: for non-negative adoption rates, each line's revenue is its units
\* times its launch price and total revenue is the sum of the two lines.
C2_RevenueIdentity ==
    (/\ ScenarioReturned
     /\ ~Lt0(call.adoption_rate_b2b)
     /\ ~Lt0(call.adoption_rate_b2c)) =>
        LET r == result.value
        IN  /\ r.b2b_revenue = Mul(r.b2b_units, R(B2B_PRICE_LAUNCH))
            /\ r.b2c_revenue = Mul(r.b2c_units, R(B2C_PRICE_LAUNCH))
            /\ r.total_revenue = Add(r.b2b_revenue, r.b2c_revenue)

C2_Witness ==
    /\ ScenarioReturned
    /\ Gt0(call.adoption_rate_b2b)
    /\ Gt0(call.adoption_rate_b2c)
    /\ Gt0(result.value.b2b_revenue)
    /\ Gt0(result.value.b2c_revenue)
    /\ Lt(result.value.b2b_revenue, result.value.total_revenue)

\* C3: for every input, gross profit = total revenue - total COGS, total
\* COGS = B2B units x B2B COGS + B2C units x B2C COGS, and
\* EBIT = gross profit - TOTAL_FIXED_COSTS.
C3_ProfitIdentity ==
    ScenarioReturned =>
        LET r == result.value
        IN  /\ r.total_cogs = Add(Mul(r.b2b_units, R(B2B_COGS)),
                                  Mul(r.b2c_units, R(B2C_COGS)))
            /\ r.gross_profit = Sub(r.total_revenue, r.total_cogs)
            /\ r.ebit = Sub(r.gross_profit, R(TOTAL_FIXED_COSTS))

C3_Witness ==
    /\ ScenarioReturned
    /\ Gt0(result.value.b2b_units)
    /\ Gt0(result.value.b2c_units)
    /\ Gt0(result.value.total_cogs)
    /\ Lt0(result.value.ebit)

\* C4: breakeven_units returns infinity for a zero or negative contribution
\* and TOTAL_FIXED_COSTS / contribution for a positive one, so that the
\* result times the contribution is the fixed-cost total; it never returns
\* a negative number and never raises ZeroDivisionError.
C4_Breakeven ==
    BreakevenReturned =>
        LET c == call.contribution_per_unit
            v == result.value
        IN  /\ v # ZeroDivisionError
            /\ ~Lt0(v)
            /\ Le0(c) => v = Inf
            /\ Gt0(c) => /\ IsNum(v)
                         /\ v = Div(R(TOTAL_FIXED_COSTS), c)
                         /\ Mul(v, c) = R(TOTAL_FIXED_COSTS)

C4_Witness ==
    /\ BreakevenReturned
    /\ call.contribution_per_unit = R(0)
    /\ result.value = Inf

\* C5: when total revenue is not strictly positive both margin percentages
\* are 0 whatever the sign of gross profit and EBIT; when it is positive
\* they are gross profit / revenue x 100 and EBIT / revenue x 100.
C5_Margins ==
    ScenarioReturned =>
        LET r == result.value
        IN  /\ ~Gt0(r.total_revenue) =>
                  /\ r.gross_margin_pct = R(0)
                  /\ r.ebit_margin_pct = R(0)
            /\ Gt0(r.total_revenue) =>
                  /\ Mul(Div(r.gross_margin_pct, R(100)), r.total_revenue)
                        = r.gross_profit
                  /\ Mul(Div(r.ebit_margin_pct, R(100)), r.total_revenue)
                        = r.ebit

\* all unit volumes zero: EBIT = -TOTAL_FIXED_COSTS, margins 0
C5_Witness ==
    /\ ScenarioReturned
    /\ result.value.b2b_units = R(0)
    /\ result.value.b2c_units = R(0)
    /\ result.value.total_revenue = R(0)
    /\ result.value.ebit = R(-TOTAL_FIXED_COSTS)
    /\ result.value.gross_margin_pct = R(0)
    /\ result.value.ebit_margin_pct = R(0)

\* C6: contribution per unit is 0 when total units is zero or negative and
\* gross profit / total units when total units is positive.
C6_Contribution ==
    ScenarioReturned =>
        LET r == result.value
        IN  /\ r.total_units = Add(r.b2b_units, r.b2c_units)
            /\ ~Gt0(r.total_units) => r.contribution_per_unit = R(0)
            /\ Gt0(r.total_units) =>
                  Mul(r.contribution_per_unit, r.total_units) = r.gross_profit

\* total units zero although money was made: -2,000 B2B and 2,000 B2C units
C6_Witness ==
    /\ ScenarioReturned
    /\ result.value.total_units = R(0)
    /\ Gt0(result.value.gross_profit)
    /\ result.value.contribution_per_unit = R(0)

\* Mixed numbers whole + num / den, 0 <= num < den
MixedLt(a, b) ==
    \/ a.whole < b.whole
    \/ a.whole = b.whole /\ a.num * b.den < b.num * a.den
MixedNegative(a) == a.whole < 0
MixedZero(a) == a.whole = 0 /\ a.num = 0
MixedPositive(a) == a.whole > 0 \/ (a.whole = 0 /\ a.num > 0)
MixedToRat(a) == Rat(a.whole * a.den + a.num, a.den)

\* C7: the profit curve of the breakeven tab starts at 0 units, is
\* units x contribution - TOTAL_FIXED_COSTS (checked in full at both ends of
\* the range), and for a positive contribution a larger number of units
\* gives a strictly larger profit, the profit being negative at every sample
\* below breakeven_units, zero at a sample equal to it and positive at every
\* sample above it.
C7_ProfitCurve ==
    (Len(display.chart) > 0
       /\ Gt0(base_row(scenarios).contribution_per_unit)) =>
        LET c   == display.chart
            n   == Len(c)
            cpu == base_row(scenarios).contribution_per_unit
            be  == be_units_total
            line(u) == Sub(Mul(u, cpu), R(TOTAL_FIXED_COSTS))
        IN  /\ c[1].units = R(0)
            /\ MixedToRat(c[1].profit) = line(c[1].units)
            /\ MixedToRat(c[n].profit) = line(c[n].units)
            /\ \A i, j \in 1..n :
                  i < j => /\ Lt(c[i].units, c[j].units)
                           /\ MixedLt(c[i].profit, c[j].profit)
            /\ \A i \in 1..n :
                  /\ Lt(c[i].units, be) => MixedNegative(c[i].profit)
                  /\ c[i].units = be => MixedZero(c[i].profit)
                  /\ Lt(be, c[i].units) => MixedPositive(c[i].profit)

\* a drawn curve with samples on both sides of the breakeven point
C7_Witness ==
    /\ reruns > 0
    /\ Len(display.chart) = NumSamples
    /\ Gt0(base_row(scenarios).contribution_per_unit)
    /\ \E i \in 1..(NumSamples - 1) :
          /\ Lt(display.chart[i].units, be_units_total)
          /\ Lt(be_units_total, display.chart[i + 1].units)
          /\ MixedNegative(display.chart[i].profit)
          /\ MixedPositive(display.chart[i + 1].profit)

FiveBuckets ==
    FIXED_SALARIES + FIXED_MARKETING + FIXED_RND + FIXED_OPS + FIXED_OTHER

\* C9: the fixed-cost total is the sum of the five buckets, and every
\* scenario row reports that total and has gross profit - EBIT equal to it,
\* the same for all rows whatever their adoption rates.
C9_FixedCosts ==
    /\ TOTAL_FIXED_COSTS = FiveBuckets
    /\ \A i \in 1..Len(scenarios) :
          /\ scenarios[i].fixed_costs = R(FiveBuckets)
          /\ Sub(scenarios[i].gross_profit, scenarios[i].ebit) = R(FiveBuckets)
    /\ \A i, j \in 1..Len(scenarios) :
          /\ scenarios[i].fixed_costs = scenarios[j].fixed_costs
          /\ Sub(scenarios[i].gross_profit, scenarios[i].ebit)
               = Sub(scenarios[j].gross_profit, scenarios[j].ebit)

\* three rows with three different adoption rates and gross profits
C9_Witness ==
    /\ reruns > 0
    /\ Len(scenarios) = 3
    /\ Lt(scenarios[1].adoption_b2b, scenarios[2].adoption_b2b)
    /\ Lt(scenarios[2].adoption_b2b, scenarios[3].adoption_b2b)
    /\ Lt(scenarios[1].gross_profit, scenarios[2].gross_profit)
    /\ Lt(scenarios[2].gross_profit, scenarios[3].gross_profit)
    /\ scenarios[1].fixed_costs = scenarios[3].fixed_costs

C11_UnitVolumes ==
    ScenarioReturned =>
        LET r == result.value
            demand == Mul(R(TOTAL_BIKES_DUBAI), BAGS_PER_BIKE_PER_YEAR)
        IN  /\ R(ANNUAL_BAG_DEMAND) = demand
            /\ r.b2b_units = Mul(call.adoption_rate_b2b, demand)
            /\ r.b2c_units
                 = Mul(call.adoption_rate_b2c, R(B2C_MARKET_SIZE_DUBAI))
            /\ r.total_units = Add(r.b2b_units, r.b2c_units)

\* 5% of 40,000 bags and 1% of 200,000 coolers: 2,000 + 2,000 units
C11_Witness ==
    /\ ScenarioReturned
    /\ call.adoption_rate_b2b = Rat(5, 100)
    /\ call.adoption_rate_b2c = Rat(1, 100)
    /\ result.value.b2b_units = R(2000)
    /\ result.value.b2c_units = R(2000)
    /\ result.value.total_units = R(4000)

TabReturned == call.op = "tab_breakeven" /\ result.returned

\* C12: when the Base row's contribution per unit is zero or negative the
\* breakeven metric shows the infinity symbol, no profit curve is drawn and
\* the warning is shown; the profit curve and the info message are shown
\* exactly when the breakeven value is finite and greater than zero, and
\* the warning otherwise.
C12_BreakevenTab ==
    TabReturned =>
        LET cpu == compute_scenario("Base", call.adoption_rate_b2b,
                       call.adoption_rate_b2c).contribution_per_unit
            be  == result.value.be_units_total
            d   == result.value.display
            finite_positive == IsNum(be) /\ Gt0(be)
        IN  /\ Le0(cpu) => /\ d.breakeven_metric.text = "infinity symbol"
                           /\ Len(d.chart) = 0
                           /\ d.message.kind = "warning"
            /\ Len(d.chart) > 0 <=> finite_positive
            /\ d.message.kind = "info" <=> finite_positive
            /\ d.message.kind = "warning" <=> ~finite_positive
            /\ finite_positive => /\ d.breakeven_metric.text = "number"
                                  /\ Len(d.chart) = NumSamples

\* 400 units sold at a loss: infinity symbol, no curve, warning
C12_Witness ==
    /\ TabReturned
    /\ call.adoption_rate_b2b = Rat(11, 100)
    /\ call.adoption_rate_b2c = Rat(-2, 100)
    /\ result.value.be_units_total = Inf
    /\ result.value.display.contribution_metric = -190
    /\ result.value.display.breakeven_metric.text = "infinity symbol"
    /\ Len(result.value.display.chart) = 0
    /\ result.value.display.message.kind = "warning"

B2B_UNIT_MARGIN == B2B_PRICE_LAUNCH - B2B_COGS      \* 250 AED
B2C_UNIT_MARGIN == B2C_PRICE_LAUNCH - B2C_COGS      \* 294 AED

\* C13: for every position of the two Base sliders inside their declared
\* ranges (B2B 5%..40%, B2C 0.2%..3.0%) the Base row has total units > 0
\* and a contribution per unit that is positive and lies between the two
\* per-line unit margins, 250 and 294 AED; so the breakeven value is finite
\* and positive, the curve and the info message are shown and the warning
\* is never shown.
C13_BaseAlwaysBreaksEven ==
    LET r == base_row(scenarios)
    IN  /\ B2B_UNIT_MARGIN = 250
        /\ B2C_UNIT_MARGIN = 294
        /\ Gt0(r.total_units)
        /\ Gt0(r.contribution_per_unit)
        /\ Lt(R(B2B_UNIT_MARGIN), r.contribution_per_unit)
        /\ Lt(r.contribution_per_unit, R(B2C_UNIT_MARGIN))
        /\ IsNum(be_units_total)
        /\ Gt0(be_units_total)
        /\ display.breakeven_metric.text = "number"
        /\ Len(display.chart) = NumSamples
        /\ display.message.kind = "info"

\* the corner of the ranges nearest the B2C margin: B2B 5%, B2C 3.0%, i.e.
\* 2,000 + 6,000 units at 283 AED each
C13_Witness ==
    /\ sliders.adoption_base_b2b_pct = R(5)
    /\ sliders.b2c_base_pct = R(3)
    /\ base_row(scenarios).total_units = R(8000)
    /\ base_row(scenarios).contribution_per_unit = R(283)
    /\ display.message.kind = "info"

====
